---- MODULE Spec2Model ----
(***************************************************************************)
(* A model of winston-cloudwatch-example: the stream registry of           *)
(* src/logger.ts (seven winston loggers, each with a Console and a         *)
(* CloudWatch transport), the envelope builder createLogEntry, the         *)
(* request middleware of src/middleware/loggerMiddleware.ts and the        *)
(* Express application (app.ts) that calls them.                           *)
(*                                                                         *)
(* JavaScript values are modelled as strings: `undefined` is the reserved  *)
(* string Undefined, and a number is its decimal rendering (as the JSON    *)
(* format of the loggers prints it).  An object is a function from its     *)
(* keys to values.                                                         *)
(*                                                                         *)
(* What winston and winston-cloudwatch do inside is not part of the        *)
(* repository.  The model keeps what logger.ts fixes (the transports of a  *)
(* logger and their order, the level, the options passed to CloudWatch)    *)
(* and treats the remote side as environment.                              *)
(***************************************************************************)
EXTENDS Integers, Sequences, FiniteSets, TLC

VARIABLES
    pc,          \* "load" | "listen" | "serving" | "crashed": how far app.ts has run
    env,         \* process.env after dotenv.config()
    loggers,     \* the exported `loggers` object of logger.ts: key -> logger
    created,     \* the stream names createLoggerForStream was called with, in order
    trace,       \* what has been observed so far, in order (console lines, buffer appends, ...)
    pending,     \* per stream: the events the CloudWatch transport holds for upload
    remoteState, \* the state of the remote endpoint (environment)
    remoteAtLog, \* the state the remote endpoint was in at the latest log call
    logCalls,    \* number of logger.info / logger.error calls made so far
    nreq,        \* number of requests handled so far
    now,         \* the clock read by Date.now() / new Date()
    calls        \* the calls of createLogEntry made in isolation: inputs and result

vars ==
    <<pc, env, loggers, created, trace, pending, remoteState, remoteAtLog, logCalls,
      nreq, now, calls>>

----------------------------------------------------------------------------
(* Bounds *)

MaxRequests == 2
MaxClock == 1

----------------------------------------------------------------------------
(* JavaScript values *)

Undefined == "<undefined>"

\* a || b for strings: undefined and "" are falsy
Or(a, b) == IF a = Undefined \/ a = "" THEN b ELSE a

\* the empty object, and what spreading undefined contributes
NoData == <<>>

\* { ...base, ...extra }: a key of extra replaces the same key of base
Spread(base, extra) ==
    [k \in DOMAIN base \cup DOMAIN extra |->
        IF k \in DOMAIN extra THEN extra[k] ELSE base[k]]

\* new Date(t).toISOString(), t counted in seconds from the start of the run
toISOString(t) == "2024-11-09T00:00:0" \o ToString(t) \o ".000Z"

\* `${Date.now()}`
DateNowString(t) == ToString(1731110400 + t)

----------------------------------------------------------------------------
(* logger.ts: the envelope builder *)

FixedFields ==
    {"timestamp", "agentId", "clientId", "action", "endpoint", "status",
     "requestIP", "userRole"}

\* the object literal of createLogEntry before the spread of additionalData
FixedPart(options, req, t) ==
    [timestamp |-> toISOString(t),
     agentId   |-> Or(req.agentId, "UNKNOWN_AGENT"),
     clientId  |-> options.clientId,
     action    |-> options.action,
     endpoint  |-> req.originalUrl,
     status    |-> Or(options.status, "SUCCESS"),
     requestIP |-> req.ip,
     userRole  |-> "agent"]

createLogEntry(options, req, t) ==
    Spread(FixedPart(options, req, t), options.additionalData)

\* {} as Request: every property read gives undefined
EmptyRequest == [agentId |-> Undefined, originalUrl |-> Undefined, ip |-> Undefined]

----------------------------------------------------------------------------
(* logger.ts: the registry *)

StreamIds ==
    {"client-profile-management", "communication-transactions",
     "account-transactions", "identity-verification", "audit-log",
     "system-errors", "api-performance"}

\* the keys of `loggers` in the order the object literal evaluates them
LoggerKeys ==
    <<"communication", "systemErrors", "auditLog", "accountTransactions",
      "clientProfile", "identityVerification", "apiPerformance">>

loggersTableDup ==
    [communication        |-> "communication-transactions",
     systemErrors         |-> "system-errors",
     auditLog             |-> "audit-log",
     accountTransactions  |-> "account-transactions",
     clientProfile        |-> "audit-log",
     identityVerification |-> "identity-verification",
     apiPerformance       |-> "api-performance"]

\* key -> the stream name its createLoggerForStream call is given
loggersTable ==
    [communication        |-> "communication-transactions",
     systemErrors         |-> "system-errors",
     auditLog             |-> "audit-log",
     accountTransactions  |-> "account-transactions",
     clientProfile        |-> "client-profile-management",
     identityVerification |-> "identity-verification",
     apiPerformance       |-> "api-performance"]

uploadRate == 1000

createLoggerForStreamRemoteFirst(logStreamName, e) ==
    [level          |-> "info",
     transports     |-> <<"CloudWatch", "Console">>,
     logGroupName   |-> Or(e.CLOUDWATCH_LOG_GROUP_NAME, "MyAppLogs"),
     logStreamName  |-> logStreamName,
     awsRegion      |-> e.AWS_REGION,
     awsAccessKeyId |-> e.AWS_ACCESS_KEY_ID,
     awsSecretAccessKey |-> e.AWS_SECRET_ACCESS_KEY,
     jsonMessage    |-> TRUE,
     uploadRate     |-> uploadRate]

createLoggerForStream(logStreamName, e) ==
    [level          |-> "info",
     transports     |-> <<"Console", "CloudWatch">>,
     logGroupName   |-> Or(e.CLOUDWATCH_LOG_GROUP_NAME, "MyAppLogs"),
     logStreamName  |-> logStreamName,
     awsRegion      |-> e.AWS_REGION,
     awsAccessKeyId |-> e.AWS_ACCESS_KEY_ID,
     awsSecretAccessKey |-> e.AWS_SECRET_ACCESS_KEY,
     jsonMessage    |-> TRUE,
     uploadRate     |-> uploadRate]

\* winston's npm levels: a call is written when its level is at most the logger's
LevelNumber == [error |-> 0, warn |-> 1, info |-> 2]

LevelEnabled(loggerLevel, level) == LevelNumber[level] <= LevelNumber[loggerLevel]

\* one event of the trace
Event(kind, stream, n, level, message, meta) ==
    [kind |-> kind, stream |-> stream, n |-> n, level |-> level,
     message |-> message, meta |-> meta]

\* The running state of a synchronous piece of code: what it has appended to
\* the trace and to the transports' buffers, and the calls it has counted.
Run == [trace |-> trace, pending |-> pending, logCalls |-> logCalls]

\* winston hands an accepted entry to each transport of the logger, in the
\* order of the `transports` array: Console prints the line, CloudWatch
\* appends the entry to its buffer of pending events.
RECURSIVE WriteTo(_, _, _, _)
WriteTo(r, lg, ev, i) ==
    IF i > Len(lg.transports) THEN r
    ELSE LET r1 == IF lg.transports[i] = "Console"
                   THEN [r EXCEPT !.trace = Append(@, [ev EXCEPT !.kind = "console"])]
                   ELSE [r EXCEPT !.trace = Append(@, [ev EXCEPT !.kind = "cloudwatch"]),
                                  !.pending[lg.logStreamName] = Append(@, ev.n)]
         IN  WriteTo(r1, lg, ev, i + 1)

\* loggers.<key>.<level>(message, meta)
Log(r, key, level, message, meta) ==
    LET lg == loggers[key]
        n  == r.logCalls + 1
        r0 == [r EXCEPT !.logCalls = n]
    IN  IF LevelEnabled(lg.level, level)
        THEN WriteTo(r0, lg, Event("log", lg.logStreamName, n, level, message, meta), 1)
        ELSE r0

\* something other than a log call that the trace records (next(), the response)
Mark(r, kind, n, meta) ==
    [r EXCEPT !.trace = Append(@, Event(kind, "-", n, "-", "-", meta))]

----------------------------------------------------------------------------
(* loggerMiddleware.ts and app.ts: the middleware *)

logRequestNextFirst(r, req, k) ==
    Log(Mark(r, "next", k, [from |-> "logRequest"]),
        "systemErrors", "info", "Incoming request",
        [method  |-> req.method,
         url     |-> req.originalUrl,
         headers |-> req.headers,
         params  |-> NoData,
         body    |-> req.body])

\* loggers.systemErrors.info({message: 'Incoming request', ...}); next()
logRequest(r, req, k) ==
    Mark(Log(r, "systemErrors", "info", "Incoming request",
             [method  |-> req.method,
              url     |-> req.originalUrl,
              headers |-> req.headers,
              params  |-> NoData,
              body    |-> req.body]),
         "next", k, [from |-> "logRequest"])

\* req.agentId = 'UNKNOWN_AGENT'; next()
agentIdMiddleware(req) == [req EXCEPT !.agentId = "UNKNOWN_AGENT"]

\* the status code of a response nobody has set a status on
DefaultStatus == "200"

\* loggers.apiPerformance.info('Request processed', {...}) of the /api routes
RequestProcessed(r, req, t0, t1) ==
    Log(r, "apiPerformance", "info", "Request processed",
        [endpoint |-> req.path,
         method   |-> req.method,
         status   |-> DefaultStatus,
         latency  |-> ToString(t1 - t0) \o "ms"])

Options(action, clientId, additionalData, status) ==
    [action |-> action, clientId |-> clientId,
     additionalData |-> additionalData, status |-> status]

----------------------------------------------------------------------------
(* app.ts: the route handlers.  Each returns the run after its log calls   *)
(* and the status of the response it sends last.                           *)

Done(r, status) == [run |-> r, status |-> status]

GetExampleNoCommunication(r, req, t) ==
    LET agentId  == "AGENT12345"
        clientId == "CLIENT67890"
        ts       == toISOString(t)
        r1 == Log(r, "clientProfile", "info", "Client profile viewed",
                  [action |-> "VIEW", clientId |-> clientId, agentId |-> agentId,
                   timestamp |-> ts, status |-> "SUCCESS", requestIP |-> req.ip,
                   userRole |-> "agent", latency |-> "0ms"])
        r3 == Log(r1, "accountTransactions", "info", "Account action",
                  [action |-> "CREATE", clientId |-> clientId,
                   accountId |-> "account-" \o DateNowString(t), agentId |-> agentId,
                   timestamp |-> ts, status |-> "SUCCESS", requestIP |-> req.ip])
        r4 == Log(r3, "identityVerification", "info", "Identity verification",
                  [action |-> "VERIFY", clientId |-> clientId, agentId |-> agentId,
                   verificationStatus |-> "APPROVED", verificationMethod |-> "NRIC",
                   timestamp |-> ts, status |-> "SUCCESS", requestIP |-> req.ip])
        r5 == Log(r4, "auditLog", "info", "Audit log entry",
                  [action |-> "ACCESS_RESOURCE", resource |-> "Client Profile",
                   clientId |-> clientId, agentId |-> agentId, timestamp |-> ts,
                   status |-> "SUCCESS", requestIP |-> req.ip])
        r6 == Log(r5, "systemErrors", "error", "System error encountered",
                  [action |-> "ERROR", error |-> "Simulated system error",
                   clientId |-> clientId, agentId |-> agentId, timestamp |-> ts,
                   status |-> "FAILURE", requestIP |-> req.ip])
        r7 == Log(r6, "apiPerformance", "info", "API performance log",
                  [endpoint |-> "/example", method |-> "GET", agentId |-> agentId,
                   status |-> DefaultStatus, latency |-> "0ms", timestamp |-> ts,
                   requestIP |-> req.ip])
    IN  Done(r7, DefaultStatus)

\* app.get('/example')
GetExample(r, req, t) ==
    LET agentId  == "AGENT12345"
        clientId == "CLIENT67890"
        ts       == toISOString(t)
        r1 == Log(r, "clientProfile", "info", "Client profile viewed",
                  [action |-> "VIEW", clientId |-> clientId, agentId |-> agentId,
                   timestamp |-> ts, status |-> "SUCCESS", requestIP |-> req.ip,
                   userRole |-> "agent", latency |-> "0ms"])
        r2 == Log(r1, "communication", "info", "Communication transaction",
                  [action |-> "SEND_EMAIL_NOTIFICATION", clientId |-> clientId,
                   agentId |-> agentId, emailSubject |-> "Account Verification",
                   emailStatus |-> "SENT", timestamp |-> ts, status |-> "SUCCESS",
                   requestIP |-> req.ip])
        r3 == Log(r2, "accountTransactions", "info", "Account action",
                  [action |-> "CREATE", clientId |-> clientId,
                   accountId |-> "account-" \o DateNowString(t), agentId |-> agentId,
                   timestamp |-> ts, status |-> "SUCCESS", requestIP |-> req.ip])
        r4 == Log(r3, "identityVerification", "info", "Identity verification",
                  [action |-> "VERIFY", clientId |-> clientId, agentId |-> agentId,
                   verificationStatus |-> "APPROVED", verificationMethod |-> "NRIC",
                   timestamp |-> ts, status |-> "SUCCESS", requestIP |-> req.ip])
        r5 == Log(r4, "auditLog", "info", "Audit log entry",
                  [action |-> "ACCESS_RESOURCE", resource |-> "Client Profile",
                   clientId |-> clientId, agentId |-> agentId, timestamp |-> ts,
                   status |-> "SUCCESS", requestIP |-> req.ip])
        r6 == Log(r5, "systemErrors", "error", "System error encountered",
                  [action |-> "ERROR", error |-> "Simulated system error",
                   clientId |-> clientId, agentId |-> agentId, timestamp |-> ts,
                   status |-> "FAILURE", requestIP |-> req.ip])
        r7 == Log(r6, "apiPerformance", "info", "API performance log",
                  [endpoint |-> "/example", method |-> "GET", agentId |-> agentId,
                   status |-> DefaultStatus, latency |-> "0ms", timestamp |-> ts,
                   requestIP |-> req.ip])
    IN  Done(r7, DefaultStatus)

\* app.post('/api/clients')
PostApiClients(r, req, t) ==
    LET clientData == req.body
        clientId   == "client-" \o DateNowString(t)
        r1 == Log(r, "clientProfile", "info", "Client profile created",
                  createLogEntry(Options("CREATE_CLIENT_PROFILE", clientId,
                      [attributes |-> clientData], Undefined), req, t))
        r2 == Log(r1, "auditLog", "info", "Audit log for client profile creation",
                  createLogEntry(Options("AUDIT_CREATE_CLIENT_PROFILE", clientId,
                      [agentId |-> req.headers.agentId, clientData |-> clientData],
                      Undefined), req, t))
    IN  Done(RequestProcessed(r2, req, t, t), "201")

\* app.post('/api/clients/:clientId/verify')
PostApiClientsVerify(r, req, t) ==
    LET clientId         == req.params.clientId
        verificationData == req.body
        isVerified       == TRUE
        r1 == Log(r, "identityVerification", "info", "Initiating identity verification",
                  createLogEntry(Options("VERIFY_IDENTITY", clientId,
                      [verificationData |-> verificationData], Undefined), req, t))
        r2 == Log(r1, "identityVerification", "info", "Identity verification result",
                  createLogEntry(Options("VERIFY_IDENTITY", clientId,
                      [status |-> IF isVerified THEN "VERIFIED" ELSE "FAILED"],
                      IF isVerified THEN "SUCCESS" ELSE "FAILURE"), req, t))
        r3 == Log(r2, "auditLog", "info", "Audit log for identity verification",
                  createLogEntry(Options("AUDIT_VERIFY_IDENTITY", clientId,
                      [agentId |-> req.headers.agentId,
                       verificationStatus |-> IF isVerified THEN "VERIFIED" ELSE "FAILED"],
                      Undefined), req, t))
    IN  Done(RequestProcessed(r3, req, t, t), DefaultStatus)

\* app.put('/api/clients/:clientId')
PutApiClients(r, req, t) ==
    LET clientId    == req.params.clientId
        updatedData == req.body
        r1 == Log(r, "clientProfile", "info", "Updating client profile",
                  createLogEntry(Options("UPDATE_CLIENT_PROFILE", clientId,
                      [updatedData |-> updatedData], Undefined), req, t))
        r2 == Log(r1, "auditLog", "info", "Audit log for updating client profile",
                  createLogEntry(Options("AUDIT_UPDATE_CLIENT_PROFILE", clientId,
                      [agentId |-> req.headers.agentId, updatedData |-> updatedData],
                      Undefined), req, t))
    IN  Done(RequestProcessed(r2, req, t, t), DefaultStatus)

\* app.get('/api/clients/:clientId')
GetApiClients(r, req, t) ==
    LET clientId == req.params.clientId
        r1 == Log(r, "clientProfile", "info", "Retrieving client profile",
                  createLogEntry(Options("VIEW_CLIENT_PROFILE", clientId,
                      NoData, "SUCCESS"), req, t))
        r2 == Log(r1, "auditLog", "info", "Audit log for viewing client profile",
                  createLogEntry(Options("AUDIT_VIEW_CLIENT_PROFILE", clientId,
                      [agentId |-> req.headers.agentId], Undefined), req, t))
    IN  Done(RequestProcessed(r2, req, t, t), DefaultStatus)

\* app.delete('/api/clients/:clientId')
DeleteApiClients(r, req, t) ==
    LET clientId == req.params.clientId
        r1 == Log(r, "clientProfile", "info", "Deleting client profile",
                  createLogEntry(Options("DELETE_CLIENT_PROFILE", clientId,
                      NoData, "SUCCESS"), req, t))
        r2 == Log(r1, "auditLog", "info", "Audit log for deleting client profile",
                  createLogEntry(Options("AUDIT_DELETE_CLIENT_PROFILE", clientId,
                      [agentId |-> req.headers.agentId], Undefined), req, t))
    IN  Done(RequestProcessed(r2, req, t, t), DefaultStatus)

\* app.post('/api/accounts')
PostApiAccounts(r, req, t) ==
    LET accountData == req.body
        accountId   == "account-" \o DateNowString(t)
        r1 == Log(r, "accountTransactions", "info", "Account created",
                  createLogEntry(Options("CREATE_ACCOUNT", req.headers.agentId,
                      [accountId |-> accountId, details |-> accountData],
                      "SUCCESS"), req, t))
        r2 == Log(r1, "auditLog", "info", "Audit log for account creation",
                  createLogEntry(Options("AUDIT_CREATE_ACCOUNT", req.headers.agentId,
                      [accountId |-> accountId, accountData |-> accountData],
                      Undefined), req, t))
    IN  Done(RequestProcessed(r2, req, t, t), "201")

DeleteApiAccountsAuditFirst(r, req, t) ==
    LET accountId == req.params.accountId
        r1 == Log(r, "auditLog", "info", "Audit log for account deletion",
                  createLogEntry(Options("AUDIT_DELETE_ACCOUNT", req.headers.agentId,
                      [accountId |-> accountId], Undefined), req, t))
        r2 == Log(r1, "accountTransactions", "info", "Deleting account",
                  createLogEntry(Options("DELETE_ACCOUNT", req.headers.agentId,
                      [accountId |-> accountId], "SUCCESS"), req, t))
    IN  Done(RequestProcessed(r2, req, t, t), DefaultStatus)

\* app.delete('/api/accounts/:accountId')
DeleteApiAccounts(r, req, t) ==
    LET accountId == req.params.accountId
        r1 == Log(r, "accountTransactions", "info", "Deleting account",
                  createLogEntry(Options("DELETE_ACCOUNT", req.headers.agentId,
                      [accountId |-> accountId], "SUCCESS"), req, t))
        r2 == Log(r1, "auditLog", "info", "Audit log for account deletion",
                  createLogEntry(Options("AUDIT_DELETE_ACCOUNT", req.headers.agentId,
                      [accountId |-> accountId], Undefined), req, t))
    IN  Done(RequestProcessed(r2, req, t, t), DefaultStatus)

\* app.get('/error')
GetError(r, req, t) ==
    Done(Log(r, "systemErrors", "error", "System error encountered",
             createLogEntry(Options("ERROR_OCCURRENCE", req.headers.agentId,
                 [error |-> "Simulated error for demonstration"], "FAILURE"), req, t)),
         "500")

\* a request no route matches: Express answers 404 itself
NoRoute(r, req, t) == Done(r, "404")

----------------------------------------------------------------------------
(* app.ts: routing *)

Routes ==
    {"GET /example", "POST /api/clients", "POST /api/clients/:clientId/verify",
     "PUT /api/clients/:clientId", "GET /api/clients/:clientId",
     "DELETE /api/clients/:clientId", "POST /api/accounts",
     "DELETE /api/accounts/:accountId", "GET /error", "GET /nowhere"}

Method(route) ==
    CASE route \in {"GET /example", "GET /api/clients/:clientId", "GET /error",
                    "GET /nowhere"} -> "GET"
      [] route \in {"POST /api/clients", "POST /api/clients/:clientId/verify",
                    "POST /api/accounts"} -> "POST"
      [] route = "PUT /api/clients/:clientId" -> "PUT"
      [] OTHER -> "DELETE"

Url(route) ==
    CASE route = "GET /example" -> "/example"
      [] route = "POST /api/clients" -> "/api/clients"
      [] route = "POST /api/clients/:clientId/verify" -> "/api/clients/c1/verify"
      [] route \in {"PUT /api/clients/:clientId", "GET /api/clients/:clientId",
                    "DELETE /api/clients/:clientId"} -> "/api/clients/c1"
      [] route = "POST /api/accounts" -> "/api/accounts"
      [] route = "DELETE /api/accounts/:accountId" -> "/api/accounts/a1"
      [] route = "GET /error" -> "/error"
      [] OTHER -> "/nowhere"

\* the values the agentId header of a request may have
HeaderAgentIds == {Undefined, "AGENT12345"}

\* the request as Express hands it to the first middleware
Request(route, h) ==
    [method      |-> Method(route),
     originalUrl |-> Url(route),
     path        |-> Url(route),
     ip          |-> "::1",
     headers     |-> [agentId |-> h],
     params      |-> [clientId |-> "c1", accountId |-> "a1"],
     body        |-> IF Method(route) \in {"POST", "PUT"} THEN "body" ELSE "{}",
     agentId     |-> Undefined]

Handle(route, r, req, t) ==
    CASE route = "GET /example" -> GetExample(r, req, t)
      [] route = "POST /api/clients" -> PostApiClients(r, req, t)
      [] route = "POST /api/clients/:clientId/verify" -> PostApiClientsVerify(r, req, t)
      [] route = "PUT /api/clients/:clientId" -> PutApiClients(r, req, t)
      [] route = "GET /api/clients/:clientId" -> GetApiClients(r, req, t)
      [] route = "DELETE /api/clients/:clientId" -> DeleteApiClients(r, req, t)
      [] route = "POST /api/accounts" -> PostApiAccounts(r, req, t)
      [] route = "DELETE /api/accounts/:accountId" -> DeleteApiAccounts(r, req, t)
      [] route = "GET /error" -> GetError(r, req, t)
      [] OTHER -> NoRoute(r, req, t)

----------------------------------------------------------------------------
(* The state machine *)

RemoteStates == {"healthy", "failing", "throttled", "disabled"}

EnvKeys ==
    {"AWS_REGION", "AWS_ACCESS_KEY_ID", "AWS_SECRET_ACCESS_KEY",
     "CLOUDWATCH_LOG_GROUP_NAME"}

\* the .env file of the README, complete
FullEnv ==
    [AWS_REGION                |-> "ap-southeast-1",
     AWS_ACCESS_KEY_ID         |-> "key-id",
     AWS_SECRET_ACCESS_KEY     |-> "secret",
     CLOUDWATCH_LOG_GROUP_NAME |-> "crm-system/agent-interactions",
     PORT                      |-> Undefined]

Init ==
    /\ pc = "load"
    /\ env = FullEnv
    /\ loggers = <<>>
    /\ created = <<>>
    /\ trace = <<>>
    /\ pending = [s \in StreamIds |-> <<>>]
    /\ remoteState = "healthy"
    /\ remoteAtLog = Undefined
    /\ logCalls = 0
    /\ nreq = 0
    /\ now = 0
    /\ calls = <<>>

\* the `loggers` object literal: one createLoggerForStream call per key
LoadLoggers(e) ==
    [k \in {LoggerKeys[i] : i \in 1..Len(LoggerKeys)} |->
        createLoggerForStream(loggersTable[k], e)]

\* logger.ts is evaluated: dotenv.config(), then the `loggers` object literal
Load ==
    /\ pc = "load"
    /\ loggers' = LoadLoggers(env)
    /\ created' = [i \in 1..Len(LoggerKeys) |-> loggersTable[LoggerKeys[i]]]
    /\ pc' = "listen"
    /\ UNCHANGED <<env, trace, pending, remoteState, remoteAtLog, logCalls, nreq, now,
                   calls>>

\* app.listen(PORT, callback): the callback logs the start of the server
Listen ==
    /\ pc = "listen"
    /\ LET r == Log(Run, "systemErrors", "info", "Server startup",
                    createLogEntry(Options("SERVER_START", "SYSTEM",
                        [port |-> Or(env.PORT, "3000")], "SUCCESS"),
                        EmptyRequest, now))
       IN  /\ trace' = r.trace
           /\ pending' = r.pending
           /\ logCalls' = r.logCalls
    /\ remoteAtLog' = remoteState
    /\ pc' = "serving"
    /\ UNCHANGED <<env, loggers, created, remoteState, nreq, now, calls>>

\* One request, from the first middleware to the response: logRequest, the
\* agentId middleware and the route handler are synchronous and run to
\* completion in one turn of the event loop.
HandleRequest ==
    /\ pc = "serving"
    /\ nreq < MaxRequests
    /\ \E route \in Routes, h \in HeaderAgentIds :
          LET k    == nreq + 1
              req0 == Request(route, h)
              r0   == Mark(Run, "request", k, [route |-> route])
              r1   == logRequest(r0, req0, k)
              req1 == agentIdMiddleware(req0)
              r2   == Mark(r1, "next", k, [from |-> "agentId"])
              out  == Handle(route, r2, req1, now)
              r3   == Mark(out.run, "response", k, [status |-> out.status])
          IN  /\ trace' = r3.trace
              /\ pending' = r3.pending
              /\ logCalls' = r3.logCalls
    /\ remoteAtLog' = remoteState
    /\ nreq' = nreq + 1
    /\ UNCHANGED <<pc, env, loggers, created, remoteState, now, calls>>

\* The remote endpoint changes state (environment).  Nothing in the
\* repository reads it: what the CloudWatch transport does with its pending
\* events when its upload timer (uploadRate) fires is outside the model.
RemoteChange ==
    /\ pc = "serving"
    /\ nreq < MaxRequests        \* followed while requests are still to come
    /\ remoteState' \in RemoteStates \ {remoteState}
    /\ UNCHANGED <<pc, env, loggers, created, trace, pending, remoteAtLog, logCalls,
                   nreq, now, calls>>

Next ==
    \/ Load
    \/ Listen
    \/ HandleRequest
    \/ RemoteChange

Spec == Init /\ [][Next]_vars

----------------------------------------------------------------------------
(* Requests during which the log call of logRequest throws.  logRequest    *)
(* has no try/catch (loggerMiddleware.ts 32-42), so the exception leaves    *)
(* the function before next() and Express answers the request itself with  *)
(* status 500; no later middleware and no route handler runs.              *)

HandleRequestLogThrows ==
    /\ pc = "serving"
    /\ nreq < MaxRequests
    /\ \E route \in Routes :
          LET k  == nreq + 1
              r0 == Mark(Run, "request", k, [route |-> route])
              r1 == Mark(r0, "throw", k, [from |-> "logRequest"])
              r2 == Mark(r1, "response", k, [status |-> "500"])
          IN  /\ trace' = r2.trace
              /\ pending' = r2.pending
              /\ logCalls' = r2.logCalls
    /\ nreq' = nreq + 1
    /\ UNCHANGED <<pc, env, loggers, created, remoteState, remoteAtLog, now, calls>>

NextFault == Next \/ HandleRequestLogThrows

SpecFault == Init /\ [][NextFault]_vars

----------------------------------------------------------------------------
(* Startup under every configuration *)

\* what a variable of the .env file may be: absent, empty, or as in FullEnv
EnvChoices(k) == {Undefined, "", FullEnv[k]}

InitStartup ==
    /\ env \in {e \in [DOMAIN FullEnv -> {Undefined, ""} \cup
                          {FullEnv[k] : k \in DOMAIN FullEnv}] :
                  /\ \A k \in EnvKeys : e[k] \in EnvChoices(k)
                  /\ e.PORT = Undefined}
    /\ pc = "load"
    /\ loggers = <<>>
    /\ created = <<>>
    /\ trace = <<>>
    /\ pending = [s \in StreamIds |-> <<>>]
    /\ remoteState = "healthy"
    /\ remoteAtLog = Undefined
    /\ logCalls = 0
    /\ nreq = 0
    /\ now = 0
    /\ calls = <<>>

\* What the CloudWatch transport's constructor does with an absent or empty
\* region or credential is outside the repository: it may accept it (Load)
\* or throw, and a throw while logger.ts is evaluated ends the process.
LoadThrows ==
    /\ pc = "load"
    /\ \E k \in {"AWS_REGION", "AWS_ACCESS_KEY_ID", "AWS_SECRET_ACCESS_KEY"} :
          env[k] \in {Undefined, ""}
    /\ pc' = "crashed"
    /\ UNCHANGED <<env, loggers, created, trace, pending, remoteState, remoteAtLog,
                   logCalls, nreq, now, calls>>

NextStartup ==
    \/ Load
    \/ LoadThrows
    \/ Listen

SpecStartup == InitStartup /\ [][NextStartup]_vars

----------------
(* createLogEntry on its own: every input of a small set *)

BuildActions == {"VERIFY_IDENTITY", "SERVER_START"}

BuildClientIds == {"c1", Undefined}

BuildStatuses == {Undefined, "SUCCESS", "FAILURE"}

\* additionalData as the callers of app.ts pass it, and two more objects
BuildData ==
    {NoData,
     [status |-> "VERIFIED"],
     [agentId |-> Undefined],
     [port |-> "3000"],
     [timestamp |-> ""],
     [action |-> ""]}

BuildRequests ==
    {EmptyRequest}
    \cup {[agentId |-> a, originalUrl |-> "/api/clients/c1/verify", ip |-> "::1"] :
            a \in {Undefined, "", "UNKNOWN_AGENT", "AGENT12345"}}

InitBuild == Init

Call(options, req, t) ==
    [options |-> options, req |-> req, t |-> t,
     result  |-> createLogEntry(options, req, t)]

\* a call with any inputs; `calls` starts again with it
BuildCall ==
    /\ \E a \in BuildActions, c \in BuildClientIds, st \in BuildStatuses,
          d \in BuildData, rq \in BuildRequests :
          calls' = <<Call(Options(a, c, d, st), rq, now)>>
    /\ UNCHANGED <<pc, env, loggers, created, trace, pending, remoteState, remoteAtLog,
                   logCalls, nreq, now>>

\* a second call with the inputs of the first
BuildAgain ==
    /\ Len(calls) = 1
    /\ calls' = Append(calls, Call(calls[1].options, calls[1].req, now))
    /\ UNCHANGED <<pc, env, loggers, created, trace, pending, remoteState, remoteAtLog,
                   logCalls, nreq, now>>

\* time passes
Tick ==
    /\ now < MaxClock
    /\ now' = now + 1
    /\ UNCHANGED <<pc, env, loggers, created, trace, pending, remoteState, remoteAtLog,
                   logCalls, nreq, calls>>

NextBuild ==
    \/ BuildCall
    \/ BuildAgain
    \/ Tick

SpecBuild == InitBuild /\ [][NextBuild]_vars

----------------------------------------------------------------------------
(* Properties *)

\* the trace positions of request k: where it arrived, where its response
\* was sent, and what lies between
ReqStart(k) == CHOOSE i \in DOMAIN trace : trace[i].kind = "request" /\ trace[i].n = k

ReqEnd(k) == CHOOSE i \in DOMAIN trace : trace[i].kind = "response" /\ trace[i].n = k

Seg(k) == (ReqStart(k) + 1) .. (ReqEnd(k) - 1)

RouteOf(k) == trace[ReqStart(k)].meta.route

\* the entries request k handed to a stream's transport
Entries(k) == {i \in Seg(k) : trace[i].kind = "cloudwatch"}

\* the next() calls of request k made by the middleware `from`
NextAt(k, from) ==
    {i \in Seg(k) : trace[i].kind = "next" /\ trace[i].meta.from = from}

\* the positions of the trace that hold an event of this kind for log call n
At(kind, n) == {i \in DOMAIN trace : trace[i].kind = kind /\ trace[i].n = n}

\* a key of an entry that is there and holds something
NonEmpty(e, k) == k \in DOMAIN e /\ e[k] \notin {Undefined, ""}

\* C1: whenever additionalData has a key that names a fixed envelope field,
\* the entry createLogEntry returns holds, for that field, the value the
\* builder computed and not the value of additionalData.
C1_FixedFieldsTakePrecedence ==
    \A i \in DOMAIN calls :
        \A k \in FixedFields \cap DOMAIN calls[i].options.additionalData :
            calls[i].result[k] = FixedPart(calls[i].options, calls[i].req, calls[i].t)[k]

\* C2: for every valid action and subject and every context, the empty one
\* included, createLogEntry returns an entry whose timestamp, stream and
\* action are there and are not empty.
C2_EntryHasTimestampStreamAction ==
    \A i \in DOMAIN calls :
        /\ NonEmpty(calls[i].result, "timestamp")
        /\ NonEmpty(calls[i].result, "stream")
        /\ NonEmpty(calls[i].result, "action")

\* C3: every log call is written to the console exactly once, the console
\* line comes before the entry's append to the CloudWatch transport's buffer,
\* and there are as many console lines as log calls, whatever the remote
\* endpoint's state.
C3_LocalSinkFirst ==
    /\ \A n \in 1..logCalls :
          /\ Cardinality(At("console", n)) = 1
          /\ \A j \in At("cloudwatch", n) : \E i \in At("console", n) : i < j
    /\ Cardinality({i \in DOMAIN trace : trace[i].kind = "console"}) = logCalls

\* the latest of several log calls was made while the endpoint was
\* disabled, and entries are in a transport's buffer
C3_Witness ==
    /\ remoteAtLog = "disabled"
    /\ logCalls >= 3
    /\ \E s \in StreamIds : Len(pending[s]) >= 2

\* C9: when a required value of the remote transport's configuration is
\* absent or empty at startup, the process never gets to serve traffic.
C9_MissingConfigNeverServes ==
    (\E k \in EnvKeys : env[k] \in {Undefined, ""}) => pc # "serving"

\* the registry as it should be: the seven keys, one logger per stream id,
\* no stream name twice, each created by one createLoggerForStream call
RegistryOK ==
    /\ DOMAIN loggers = {LoggerKeys[i] : i \in 1..Len(LoggerKeys)}
    /\ {loggers[k].logStreamName : k \in DOMAIN loggers} = StreamIds
    /\ \A k1, k2 \in DOMAIN loggers :
          loggers[k1].logStreamName = loggers[k2].logStreamName => k1 = k2
    /\ Len(created) = Cardinality(StreamIds)
    /\ \A s \in StreamIds : Cardinality({i \in DOMAIN created : created[i] = s}) = 1

\* C10: once logger.ts is loaded the registry holds exactly one logger for
\* each of the seven stream ids, no two with the same stream name, and no
\* step (a log call, a request) creates, replaces or removes a logger.
C10_OneLoggerPerStream ==
    /\ [](pc # "load" => RegistryOK)
    /\ [][pc # "load" => (loggers' = loggers /\ created' = created)]_vars

\* requests have been handled and have made their log calls
C10_Witness ==
    /\ pc = "serving"
    /\ nreq = MaxRequests
    /\ logCalls > MaxRequests
    /\ RegistryOK

\* the request-received entries of request k
Received(k) ==
    {i \in Entries(k) : /\ trace[i].stream = "system-errors"
                        /\ trace[i].message = "Incoming request"}

Performance(k) == {i \in Entries(k) : trace[i].stream = "api-performance"}

\* C12: every request handled by a route has exactly one api-performance
\* entry, carrying a latency and a status equal to the status code of the
\* response that was sent.
C12_OnePerformanceEntryWithFinalStatus ==
    \A k \in 1..nreq :
        RouteOf(k) # "GET /nowhere" =>
            /\ Cardinality(Performance(k)) = 1
            /\ \A i \in Performance(k) :
                  /\ "latency" \in DOMAIN trace[i].meta
                  /\ trace[i].meta.status = trace[ReqEnd(k)].meta.status

\* C13: logRequest calls next() exactly once for every request, also for a
\* request during which its log call fails.
C13_NextExactlyOnce ==
    \A k \in 1..nreq : Cardinality(NextAt(k, "logRequest")) = 1

\* a context value is supplied when it is neither absent nor empty
Supplied(a) == a \notin {Undefined, ""}

\* C14: the agentId of every entry createLogEntry returns is the context's
\* agentId when the context supplies one, and "UNKNOWN_AGENT" otherwise,
\* whatever additionalData holds.
C14_AgentIdFromContext ==
    \A i \in DOMAIN calls :
        calls[i].result.agentId =
            IF Supplied(calls[i].req.agentId) THEN calls[i].req.agentId
                                              ELSE "UNKNOWN_AGENT"

\* C15: the status of every entry createLogEntry returns is "SUCCESS" when
\* the options omit it and the options' status otherwise, so it is one of
\* "SUCCESS" and "FAILURE".
C15_StatusSuccessOrFailure ==
    \A i \in DOMAIN calls :
        /\ calls[i].result.status =
              IF calls[i].options.status = Undefined THEN "SUCCESS"
                                                     ELSE calls[i].options.status
        /\ calls[i].result.status \in {"SUCCESS", "FAILURE"}

\* C16: every GET /example request has, before its response is sent, at
\* least one entry in each of the seven streams.
C16_ExampleReachesEveryStream ==
    \A k \in 1..nreq :
        RouteOf(k) = "GET /example" =>
            LET entries == Entries(k)
                sent    == ReqEnd(k)
            IN  \A sid \in StreamIds :
                    \E i \in entries : trace[i].stream = sid /\ i < sent

\* a GET /example request has been answered
C16_Witness ==
    \E k \in 1..nreq :
        /\ RouteOf(k) = "GET /example"
        /\ trace[ReqEnd(k)].meta.status = "200"
        /\ Cardinality(Entries(k)) = 8

\* the entries of request k written by its route handler, i.e. after the
\* last middleware called next()
HandlerEntries(k) ==
    LET called == NextAt(k, "agentId")
    IN  {i \in Entries(k) : called # {} /\ \A j \in called : j < i}

ApiRoutes == Routes \ {"GET /example", "GET /error", "GET /nowhere"}

DomainStreams ==
    {"client-profile-management", "identity-verification", "account-transactions"}

InStreams(H, S) == {i \in H : trace[i].stream \in S}

\* C18: in each of the seven /api routes the handler writes its domain
\* entries first, then exactly one audit-log entry with the same clientId,
\* then exactly one api-performance entry, all before the response; and no
\* request has a domain entry without an audit-log entry.
C18_DomainThenAuditThenPerformance ==
    \A k \in 1..nreq :
        LET H    == HandlerEntries(k)
            dom  == InStreams(H, DomainStreams)
            aud  == InStreams(H, {"audit-log"})
            perf == InStreams(H, {"api-performance"})
        IN  /\ dom # {} => aud # {}
            /\ RouteOf(k) \in ApiRoutes =>
                  /\ dom # {}
                  /\ Cardinality(aud) = 1
                  /\ Cardinality(perf) = 1
                  /\ H = dom \cup aud \cup perf
                  /\ \A d \in dom : \A a \in aud :
                        /\ d < a
                        /\ trace[a].meta.clientId = trace[d].meta.clientId
                  /\ \A a \in aud : \A p \in perf : a < p
                  /\ \A p \in perf : p < ReqEnd(k)

\* a verification request, with its two domain entries, and an account
\* request have both been answered
C18_Witness ==
    /\ \E k \in 1..nreq :
          /\ RouteOf(k) = "POST /api/clients/:clientId/verify"
          /\ Cardinality(InStreams(HandlerEntries(k), DomainStreams)) = 2
    /\ \E k \in 1..nreq :
          /\ RouteOf(k) = "DELETE /api/accounts/:accountId"
          /\ Cardinality(InStreams(HandlerEntries(k), {"audit-log"})) = 1

====
